---- MODULE Spec2Model ----
(***************************************************************************)
(* ScrapyZyteAPIDownloadHandler (scrapy_zyte_api/handler.py): the download *)
(* handler that sends requests flagged with meta["zyte_api"] through the   *)
(* Zyte API client and hands every other request to HTTPDownloadHandler.   *)
(*                                                                         *)
(* Python values are records [type, repr]; a dict is a sequence of         *)
(* <<key, value>> pairs with distinct keys (Python dicts iterate in        *)
(* insertion order); str contents that get encoded are sequences of code   *)
(* points, bytes are sequences of 0..255.  Each request runs in its own    *)
(* slot; the code between two awaits runs as one step of the event loop.   *)
(***************************************************************************)
EXTENDS Integers, Sequences, FiniteSets, TLC

\* ---------------------------------------------------------------- bounds
\* Number of requests the scheduler hands to the handler concurrently.
NumRequests == 2
\* Largest number of keys in a caller's meta["zyte_api"] dict.
MaxParams == 2

\* --------------------------------------------------------- Python values
PyVal(t, r) == [type |-> t, repr |-> r]
PyNone == PyVal("NoneType", "None")
PyTrue == PyVal("bool", "True")
PyFalse == PyVal("bool", "False")
PyStr(s) == PyVal("str", s)
PyInt(s) == PyVal("int", s)
PyList(s) == PyVal("list", s)

\* bool(value), as `if request.meta.get("zyte_api")` and
\* `if error_data.get("detail")` evaluate a non-dict value.
Truthy(v) ==
    CASE v.type = "NoneType" -> FALSE
      [] v.type = "bool" -> v.repr = "True"
      [] v.type = "int" -> v.repr # "0"
      [] v.type = "str" -> v.repr # ""
      [] v.type = "list" -> v.repr # "[]"
      [] OTHER -> TRUE

\* scrapy's Settings keeps each setting wrapped: Settings.attributes maps a
\* name to a SettingsAttribute object holding the value (and its priority),
\* while Settings.get(name) would return the bare value.
SettingsAttribute(value) == PyVal("SettingsAttribute", value.repr)

\* dict.get(key) on a TLA+ function standing for a dict.
DictGet(d, key) == IF key \in DOMAIN d THEN d[key] ELSE PyNone

\* ------------------------------------------------------------ dict items
Keys(items) == {items[n][1] : n \in DOMAIN items}
Lookup(items, key) == items[CHOOSE n \in DOMAIN items : items[n][1] = key][2]
EmptyDict == << >>

\* ----------------------------------------------------------- input sets
Slots == 1 .. NumRequests
JobIds == {PyStr("1/2/3"), PyStr("7/8/9")}
AllowedKeys == {"javascript", "geolocation", "echoData"}
ParamKeys == AllowedKeys \cup {"url", "browserHtml", "jobId", "waka"}
ParamValues == {PyTrue, PyFalse}
Scalars == {PyNone, PyFalse, PyInt("0"), PyStr(""), PyList("[]"),
            PyTrue, PyInt("1"), PyStr("abc"), PyList("[1]")}

RECURSIVE DictsOfLen(_)
DictsOfLen(n) ==
    IF n = 0 THEN {EmptyDict}
    ELSE {Append(d, <<k, v>>) :
            d \in DictsOfLen(n - 1), k \in ParamKeys, v \in ParamValues}
Dicts == {d \in UNION {DictsOfLen(n) : n \in 0 .. MaxParams} :
            Cardinality(Keys(d)) = Len(d)}

\* A request: its url and its meta.  has_meta: "zyte_api" is a key of
\* request.meta; is_dict: the value is a dict (then params holds its items),
\* otherwise value holds it.
Req(u, h, isd, v, p) ==
    [url |-> u, has_meta |-> h, is_dict |-> isd, value |-> v, params |-> p]
RequestsFor(urls, dicts, scalars) ==
    {Req(u, FALSE, FALSE, PyNone, EmptyDict) : u \in urls}
    \cup {Req(u, TRUE, FALSE, v, EmptyDict) : u \in urls, v \in scalars}
    \cup {Req(u, TRUE, TRUE, PyNone, d) : u \in urls, d \in dicts}
NoRequest == Req("", FALSE, FALSE, PyNone, EmptyDict)

\* ------------------------------------------------------------------ logs
LogRec(level, msg, arg) == [level |-> level, msg |-> msg, arg |-> arg]
NotADictError == LogRec("error", "parameters should be provided as dictionary", PyNone)
NotAllowedWarning(key) == LogRec("warning", "key isn't allowed, skipping", PyStr(key))
OverwriteWarning(key) == LogRec("warning", "key can't be overwritten, skipping", PyStr(key))
ApiErrorLog(message) == LogRec("error", "Got Zyte API error", message)
OtherErrorLog == LogRec("error", "Got an error when processing Zyte API request", PyNone)

\* ------------------------------------------- _download_request, the payload
\* allowed_keys with one key misspelt.
allowed_keys_Misspelt == {"javascript", "geolocation", "echodata"}
allowed_keys == {"javascript", "geolocation", "echoData"}

\* api_data = {"url": request.url, "browserHtml": True}
BasePayload(url) == [k \in {"url", "browserHtml"} |->
                        IF k = "url" THEN PyStr(url) ELSE PyTrue]

\* d[key] = value on a dict held as a function.
DictSet(d, key, value) ==
    [k \in DOMAIN d \cup {key} |-> IF k = key THEN value ELSE d[k]]

\* The loop without its `key not in allowed_keys` test.
RECURSIVE MergeParams_NoAllowedTest(_, _, _)
MergeParams_NoAllowedTest(data, logged, items) ==
    IF items = << >> THEN [api_data |-> data, log |-> logged]
    ELSE LET key == Head(items)[1]
             value == Head(items)[2]
         IN IF key \in DOMAIN data
            THEN MergeParams_NoAllowedTest(data, Append(logged, OverwriteWarning(key)),
                                           Tail(items))
            ELSE MergeParams_NoAllowedTest(DictSet(data, key, value), logged, Tail(items))

\* One pass of `for key, value in api_params.items()` over the items left,
\* carrying api_data and the records logged so far.
RECURSIVE MergeParams(_, _, _)
MergeParams(data, logged, items) ==
    IF items = << >> THEN [api_data |-> data, log |-> logged]
    ELSE LET key == Head(items)[1]
             value == Head(items)[2]
         IN IF key \notin allowed_keys
            THEN MergeParams(data, Append(logged, NotAllowedWarning(key)), Tail(items))
            ELSE IF key \in DOMAIN data
            THEN MergeParams(data, Append(logged, OverwriteWarning(key)), Tail(items))
            ELSE MergeParams(DictSet(data, key, value), logged, Tail(items))

\* if self._job_id is not None: api_data["jobId"] = self._job_id
AttachJobId(data, job_id) ==
    IF job_id # PyNone THEN DictSet(data, "jobId", job_id) ELSE data

\* The payload handed to the client and the records logged while building it.
BuildPayload(url, api_params, job_id) ==
    LET merged == MergeParams(BasePayload(url), << >>, api_params)
    IN [api_data |-> AttachJobId(merged.api_data, job_id), log |-> merged.log]

\* ------------------------------------------------- str.encode("utf-8")
IsSurrogate(cp) == cp >= 55296 /\ cp <= 57343
Utf8Char(cp) ==
    IF cp < 128 THEN <<cp>>
    ELSE IF cp < 2048 THEN <<192 + (cp \div 64), 128 + (cp % 64)>>
    ELSE IF cp < 65536
    THEN <<224 + (cp \div 4096), 128 + ((cp \div 64) % 64), 128 + (cp % 64)>>
    ELSE <<240 + (cp \div 262144), 128 + ((cp \div 4096) % 64),
           128 + ((cp \div 64) % 64), 128 + (cp % 64)>>
RECURSIVE Utf8Bytes(_)
Utf8Bytes(chars) ==
    IF chars = << >> THEN << >> ELSE Utf8Char(Head(chars)) \o Utf8Bytes(Tail(chars))
\* raised: "" or the exception str.encode raises (lone surrogates cannot be
\* encoded).
encode(chars) ==
    IF \E n \in DOMAIN chars : IsSurrogate(chars[n])
    THEN [raised |-> "UnicodeEncodeError", bytes |-> << >>]
    ELSE [raised |-> "", bytes |-> Utf8Bytes(chars)]

\* ------------------------------------------------------------ responses
JVal(t, chars) == [type |-> t, chars |-> chars]
JStr(chars) == JVal("str", chars)
JNull == JVal("NoneType", << >>)
JNum == JVal("int", << >>)
EmptyObject == [k \in {} |-> JNull]
HtmlDoc == <<60, 104, 116, 109, 108, 62, 60, 47, 104, 116, 109, 108, 62>>
JsonStrings == {HtmlDoc, << >>, <<233>>, <<60, 8364, 62>>, <<128512>>, <<55296>>}
ApiResponsesFor(strings, others) ==
    {EmptyObject} \cup {[k \in {"browserHtml"} |-> v] :
                          v \in {JStr(c) : c \in strings} \cup others}

Response(url, status, body, req, flags) ==
    [url |-> url, status |-> status, body |-> body, request |-> req,
     flags |-> flags, headers |-> << >>]
NoResponse == Response("", 0, << >>, 0, << >>)

\* Lines 79-89 after the counter: the result of building the Response from
\* api_response for request slot i.
BuildResponse(i, url, api_response) ==
    IF "browserHtml" \notin DOMAIN api_response
    THEN [raised |-> "KeyError", response |-> NoResponse]
    ELSE IF api_response["browserHtml"].type # "str"
    THEN [raised |-> "AttributeError", response |-> NoResponse]
    ELSE LET body == encode(api_response["browserHtml"].chars)
         IN IF body.raised # ""
            THEN [raised |-> body.raised, response |-> NoResponse]
            ELSE [raised |-> "",
                  response |-> Response(url, 200, body.bytes, i, <<"zyte-api">>)]

\* --------------------------------------------------------- RequestError
\* error.response_content: kind is what .decode("utf-8") and json.loads
\* make of it: "None" (a value without .decode), "undecodable" (bytes that
\* are not UTF-8), "notjson" (text that is not JSON) or "json" (then data
\* is the parsed value: jtype its JSON type, and for an object whether it
\* has a "detail" member and that member).
JsonData(jtype, has_detail, detail) ==
    [jtype |-> jtype, has_detail |-> has_detail, detail |-> detail]
NoJson == JsonData("", FALSE, PyNone)
Content(kind, data) == [kind |-> kind, data |-> data]
\* hasattr(error, "message"), error.message, str(error),
\* hasattr(error, "response_content"), error.response_content
RequestError(has_message, message, str, has_content, content) ==
    [has_message |-> has_message, message |-> message, str |-> str,
     has_response_content |-> has_content, response_content |-> content]
NoError == RequestError(FALSE, PyNone, PyNone, FALSE, Content("None", NoJson))

RateLimited == PyStr("rate limited")
Details == {RateLimited, PyStr(""), PyNone, PyInt("7")}
JsonObjects == {JsonData("object", FALSE, PyNone)}
               \cup {JsonData("object", TRUE, d) : d \in Details}
JsonOthers == {JsonData(t, FALSE, PyNone) : t \in {"array", "string", "null"}}
ContentsFor(jsons) ==
    {Content(k, NoJson) : k \in {"None", "undecodable", "notjson"}}
    \cup {Content("json", j) : j \in jsons}
RequestErrorsFor(jsons) ==
    {RequestError(hm, PyStr("Too Many Requests"), PyStr("429, message='Too Many Requests'"),
                  TRUE, c) : hm \in BOOLEAN, c \in ContentsFor(jsons)}
    \cup {RequestError(hm, PyStr("Too Many Requests"), PyStr("429, message='Too Many Requests'"),
                       FALSE, Content("None", NoJson)) : hm \in BOOLEAN}

\* json.loads(error.response_content.decode("utf-8")): the exception raised
\* ("" for none) and the value returned.
LoadContent(content) ==
    CASE content.kind = "None" -> [raised |-> "AttributeError", data |-> NoJson]
      [] content.kind = "undecodable" -> [raised |-> "ValueError", data |-> NoJson]
      [] content.kind = "notjson" -> [raised |-> "ValueError", data |-> NoJson]
      [] OTHER -> [raised |-> "", data |-> content.data]

\* _get_request_error_message(error): the exception it raises ("" for none)
\* and the message it returns.  error_data.get exists only on a dict.
_get_request_error_message(error) ==
    LET base_message == IF error.has_message THEN error.message ELSE error.str
        loaded == LoadContent(error.response_content)
        error_data == loaded.data
    IN IF ~error.has_response_content
       THEN [raised |-> "", message |-> base_message]
       ELSE IF loaded.raised \in {"AttributeError", "TypeError", "ValueError"}
       THEN [raised |-> "", message |-> base_message]
       ELSE IF error_data.jtype # "object"
       THEN [raised |-> "AttributeError", message |-> PyNone]
       ELSE IF error_data.has_detail /\ Truthy(error_data.detail)
       THEN [raised |-> "", message |-> error_data.detail]
       ELSE [raised |-> "", message |-> base_message]

\* ----------------------------------------------------------------- state
VARIABLES
    attributes,        \* crawler.settings.attributes, restricted to "JOB"
    _job_id,           \* self._job_id
    _session,          \* self._session: the session object it refers to
    session_state,     \* that session: "open", "closing" or "closed"
    _stats,            \* crawler.stats: a dict from stat names to counts
    request,           \* per slot: the request handed to download_request
    pc,                \* per slot: "idle", "awaiting" (suspended at request_raw) or "done"
    api_data,          \* per slot: the payload passed to request_raw
    calls,             \* per slot: number of calls of self._client.request_raw
    call_session,      \* per slot: the session passed to request_raw
    parent_downloads,  \* per slot: number of calls of super().download_request
    log,               \* per slot: the records logged for the request, in order
    api_response,      \* per slot: what request_raw returned
    er,                \* per slot: the RequestError request_raw raised
    client_result,     \* per slot: "", "returned", "RequestError" or "Exception"
    outcome,           \* per slot: "", "Response", "delegated" or the exception raised
    response,          \* per slot: the Response returned
    close_pc,          \* close(): "idle", "super_close", "session_close", "done", "failed"
    super_close        \* super().close(): "idle", "running", "succeeded", "failed"

handlerVars == <<attributes, _job_id>>
closeVars == <<_session, session_state, close_pc, super_close>>
clientVars == <<api_response, er, client_result>>
callVars == <<api_data, calls, call_session>>
vars == <<attributes, _job_id, _session, session_state, _stats, request, pc, api_data, calls,
          call_session, parent_downloads, log, api_response, er, client_result,
          outcome, response, close_pc, super_close>>

RequestCount == "scrapy-zyte-api/request_count"
\* stats.get_value(key, 0)
StatsGet(stats, key) == IF key \in DOMAIN stats THEN stats[key] ELSE 0
\* stats.inc_value(key)
inc_value(stats, key) ==
    [k \in DOMAIN stats \cup {key} |-> IF k = key THEN StatsGet(stats, key) + 1 ELSE stats[k]]

\* create_session(): the one session object made at construction.
create_session == "session created in __init__"

\* The settings the crawler is built with: JOB unset, or set to a job id.
SettingsChoices ==
    {[k \in {} |-> PyNone]} \cup {[k \in {"JOB"} |-> SettingsAttribute(j)] : j \in JobIds}

\* __init__: self._job_id = crawler.settings.attributes.get("JOB");
\* self._session = create_session(); nothing requested yet.
Init ==
    /\ attributes \in SettingsChoices
    /\ _job_id = DictGet(attributes, "JOB")
    /\ _session = create_session
    /\ session_state = "open"
    /\ _stats = [k \in {} |-> 0]
    /\ request = [i \in Slots |-> NoRequest]
    /\ pc = [i \in Slots |-> "idle"]
    /\ api_data = [i \in Slots |-> [k \in {} |-> PyNone]]
    /\ calls = [i \in Slots |-> 0]
    /\ call_session = [i \in Slots |-> ""]
    /\ parent_downloads = [i \in Slots |-> 0]
    /\ log = [i \in Slots |-> << >>]
    /\ api_response = [i \in Slots |-> EmptyObject]
    /\ er = [i \in Slots |-> NoError]
    /\ client_result = [i \in Slots |-> ""]
    /\ outcome = [i \in Slots |-> ""]
    /\ response = [i \in Slots |-> NoResponse]
    /\ close_pc = "idle"
    /\ super_close = "idle"

\* The flag read as `"zyte_api" in request.meta`.
MetaFlag_KeyPresent(req) == req.has_meta

\* request.meta.get("zyte_api") taken as a condition.
MetaFlag(req) ==
    /\ req.has_meta
    /\ IF req.is_dict THEN req.params # EmptyDict ELSE Truthy(req.value)

\* super().download_request(request, spider): HTTPDownloadHandler downloads.
super_download_request(i, req) ==
    /\ parent_downloads' = [parent_downloads EXCEPT ![i] = @ + 1]
    /\ outcome' = [outcome EXCEPT ![i] = "delegated"]
    /\ pc' = [pc EXCEPT ![i] = "done"]
    /\ UNCHANGED <<callVars, log, _stats, response>>

\* _download_request without its isinstance test: api_params.items() raises
\* AttributeError on a value that is not a dict.
_download_request_NoTypeTest(i, req) ==
    IF ~req.is_dict
    THEN /\ outcome' = [outcome EXCEPT ![i] = "AttributeError"]
         /\ pc' = [pc EXCEPT ![i] = "done"]
         /\ UNCHANGED <<callVars, parent_downloads, _stats, response, log>>
    ELSE LET built == BuildPayload(req.url, req.params, _job_id)
         IN /\ log' = [log EXCEPT ![i] = @ \o built.log]
            /\ api_data' = [api_data EXCEPT ![i] = built.api_data]
            /\ calls' = [calls EXCEPT ![i] = @ + 1]
            /\ call_session' = [call_session EXCEPT ![i] = _session]
            /\ pc' = [pc EXCEPT ![i] = "awaiting"]
            /\ UNCHANGED <<outcome, parent_downloads, _stats, response>>

\* _download_request up to its await: the isinstance check, the payload and
\* the call of self._client.request_raw(api_data, session=self._session).
_download_request(i, req) ==
    IF ~req.is_dict
    THEN /\ log' = [log EXCEPT ![i] = Append(@, NotADictError)]
         /\ outcome' = [outcome EXCEPT ![i] = "IgnoreRequest"]
         /\ pc' = [pc EXCEPT ![i] = "done"]
         /\ UNCHANGED <<callVars, parent_downloads, _stats, response>>
    ELSE LET built == BuildPayload(req.url, req.params, _job_id)
         IN /\ log' = [log EXCEPT ![i] = @ \o built.log]
            /\ api_data' = [api_data EXCEPT ![i] = built.api_data]
            /\ calls' = [calls EXCEPT ![i] = @ + 1]
            /\ call_session' = [call_session EXCEPT ![i] = _session]
            /\ pc' = [pc EXCEPT ![i] = "awaiting"]
            /\ UNCHANGED <<outcome, parent_downloads, _stats, response>>

\* download_request(request, spider) for the request put in slot i.
download_request(i, req) ==
    /\ request' = [request EXCEPT ![i] = req]
    /\ IF MetaFlag(req) THEN _download_request(i, req) ELSE super_download_request(i, req)
    /\ UNCHANGED <<handlerVars, closeVars, clientVars>>

\* The scheduler hands one of `requests` to the handler: slot i is free and
\* the handler has not been asked to close.
Schedule(i, requests) ==
    /\ pc[i] = "idle"
    /\ close_pc = "idle"
    /\ \E req \in requests : download_request(i, req)

\* request_raw returns api_response: lines 79-89.
ClientReturns(i, resp) ==
    /\ pc[i] = "awaiting"
    /\ api_response' = [api_response EXCEPT ![i] = resp]
    /\ client_result' = [client_result EXCEPT ![i] = "returned"]
    /\ _stats' = inc_value(_stats, RequestCount)
    /\ LET built == BuildResponse(i, request[i].url, resp)
       IN /\ outcome' = [outcome EXCEPT ![i] =
                            IF built.raised = "" THEN "Response" ELSE built.raised]
          /\ response' = [response EXCEPT ![i] = built.response]
    /\ pc' = [pc EXCEPT ![i] = "done"]
    /\ UNCHANGED <<handlerVars, closeVars, callVars, request, parent_downloads, log, er>>

\* request_raw raises RequestError: lines 70-75.  An exception raised inside
\* the except clause is not caught by the clause that follows it.
ClientRaisesRequestError(i, error) ==
    /\ pc[i] = "awaiting"
    /\ er' = [er EXCEPT ![i] = error]
    /\ client_result' = [client_result EXCEPT ![i] = "RequestError"]
    /\ LET got == _get_request_error_message(error)
       IN IF got.raised # ""
          THEN /\ outcome' = [outcome EXCEPT ![i] = got.raised]
               /\ log' = log
          ELSE /\ log' = [log EXCEPT ![i] = Append(@, ApiErrorLog(got.message))]
               /\ outcome' = [outcome EXCEPT ![i] = "IgnoreRequest"]
    /\ pc' = [pc EXCEPT ![i] = "done"]
    /\ UNCHANGED <<handlerVars, closeVars, callVars, request, parent_downloads,
                   api_response, _stats, response>>

\* request_raw raises any other Exception: lines 76-78.
ClientRaisesException(i) ==
    /\ pc[i] = "awaiting"
    /\ client_result' = [client_result EXCEPT ![i] = "Exception"]
    /\ log' = [log EXCEPT ![i] = Append(@, OtherErrorLog)]
    /\ outcome' = [outcome EXCEPT ![i] = "IgnoreRequest"]
    /\ pc' = [pc EXCEPT ![i] = "done"]
    /\ UNCHANGED <<handlerVars, closeVars, callVars, request, parent_downloads,
                   api_response, er, _stats, response>>

requestVars == <<request, pc, api_data, calls, call_session, parent_downloads, log,
                 api_response, er, client_result, outcome, response, _stats>>

\* close() runs to its first yield: super().close() is started.
close ==
    /\ close_pc = "idle"
    /\ close_pc' = "super_close"
    /\ super_close' = "running"
    /\ UNCHANGED <<handlerVars, requestVars, _session, session_state>>

\* The Deferred of super().close() fires.  With a result, close() goes on to
\* deferred_from_coro(self._close()), which awaits self._session.close(); a
\* Failure is thrown into the generator at the yield and ends close().
SuperCloseFires(ok) ==
    /\ close_pc = "super_close"
    /\ IF ok
       THEN /\ super_close' = "succeeded"
            /\ session_state' = "closing"
            /\ close_pc' = "session_close"
       ELSE /\ super_close' = "failed"
            /\ session_state' = session_state
            /\ close_pc' = "failed"
    /\ UNCHANGED <<handlerVars, requestVars, _session>>

\* self._session.close() completes and close() returns.
SessionCloseDone ==
    /\ close_pc = "session_close"
    /\ session_state' = "closed"
    /\ close_pc' = "done"
    /\ UNCHANGED <<handlerVars, requestVars, super_close, _session>>

\* -------------------------------------------------------- specifications
Urls == {"http://a.example", "http://b.example"}
SomeDicts == {EmptyDict, <<<<"javascript", PyFalse>>>>, <<<<"waka", PyTrue>>>>}
SomeRequests == RequestsFor(Urls, SomeDicts, {PyNone, PyTrue})
SomeResponses == ApiResponsesFor({HtmlDoc}, {})
SomeErrors ==
    {RequestError(TRUE, PyStr("Too Many Requests"), PyStr("429"), TRUE, Content("json", j)) :
        j \in {JsonData("object", TRUE, RateLimited), JsonData("array", FALSE, PyNone)}}

\* The handler under concurrent requests, then closed.
Next ==
    \/ \E i \in Slots : Schedule(i, SomeRequests)
    \/ \E i \in Slots, resp \in SomeResponses : ClientReturns(i, resp)
    \/ \E i \in Slots, error \in SomeErrors : ClientRaisesRequestError(i, error)
    \/ \E i \in Slots : ClientRaisesException(i)
    \/ close
    \/ \E ok \in BOOLEAN : SuperCloseFires(ok)
    \/ SessionCloseDone
Spec == Init /\ [][Next]_vars

\* One request, over every input and every result of the client.
AllRequests == RequestsFor(Urls, Dicts, Scalars)
AllResponses == ApiResponsesFor(JsonStrings, {JNull, JNum})
AllErrors == RequestErrorsFor(JsonObjects \cup JsonOthers)
NextInputs ==
    \/ Schedule(1, AllRequests)
    \/ \E resp \in AllResponses : ClientReturns(1, resp)
    \/ \E error \in AllErrors : ClientRaisesRequestError(1, error)
    \/ ClientRaisesException(1)
SpecInputs == Init /\ [][NextInputs]_vars

\* ================================================================ claims
Started(i) == pc[i] # "idle"
Finished(i) == pc[i] = "done"
Count(i, rec) == Cardinality({n \in DOMAIN log[i] : log[i][n] = rec})
RequestCountValue == StatsGet(_stats, RequestCount)

\* C1: whatever the client call does (returns any JSON object, raises a
\* RequestError with any message and response content, raises another
\* exception), a handled request ends in a Response or in IgnoreRequest and
\* in no other exception, and the client is called at most once for it.
C1_OnlyResponseOrIgnoreRequest ==
    \A i \in Slots :
        /\ calls[i] <= 1
        /\ (Finished(i) /\ calls[i] = 1) => outcome[i] \in {"Response", "IgnoreRequest"}

\* The values of Scalars whose bool() is False.
FalsyScalars == {PyNone, PyFalse, PyInt("0"), PyStr(""), PyList("[]")}
DroppedAsNotADict(i) ==
    /\ outcome[i] = "IgnoreRequest"
    /\ log[i] = <<NotADictError>>
    /\ calls[i] = 0
    /\ parent_downloads[i] = 0

\* C2 as stated: every request whose meta has "zyte_api" with a value that
\* is not a dict, truthy or not, is dropped with IgnoreRequest, an error
\* logged, the client not called and the HTTP handler not used.
C2_AnyNonMappingDropped ==
    \A i \in Slots :
        (Started(i) /\ request[i].has_meta /\ ~request[i].is_dict) => DroppedAsNotADict(i)

\* C2 amended: every request whose "zyte_api" value is not a dict and is
\* truthy is dropped with IgnoreRequest, exactly one error logged, no client
\* call and no HTTP download; a falsy non-dict value makes the request an
\* ordinary one: it goes to the HTTP handler, with nothing logged.
C2_TruthyNonMappingDropped ==
    \A i \in Slots :
        (Started(i) /\ request[i].has_meta /\ ~request[i].is_dict) =>
            IF request[i].value \in FalsyScalars
            THEN /\ outcome[i] = "delegated"
                 /\ parent_downloads[i] = 1
                 /\ calls[i] = 0
                 /\ log[i] = << >>
            ELSE DroppedAsNotADict(i)
C2_Witness ==
    \E i \in Slots :
        /\ request[i].has_meta /\ ~request[i].is_dict
        /\ request[i].value = PyStr("abc")
        /\ Finished(i) /\ outcome[i] = "IgnoreRequest"

DisallowedKeys(i) == Keys(request[i].params) \ AllowedKeys
HandledDict(i) == Started(i) /\ request[i].is_dict /\ request[i].params # EmptyDict

\* C3 as stated: every key of the caller's dict outside {javascript,
\* geolocation, echoData} is absent from the payload, is warned about
\* exactly once, and the request still goes to the client.
C3_DisallowedKeyAbsent ==
    \A i \in Slots : HandledDict(i) =>
        \A key \in DisallowedKeys(i) :
            /\ key \notin DOMAIN api_data[i]
            /\ Count(i, NotAllowedWarning(key)) = 1
            /\ calls[i] = 1

\* C3 amended: a key outside the allowed set never brings the caller's value
\* into the payload: it is absent from the payload unless it is one of the
\* handler's own keys (url, browserHtml, and jobId when JOB is set), which
\* hold the handler's values; exactly one warning is logged for it and no
\* other record; the request still goes to the client.
C3_DisallowedValueAbsent ==
    \A i \in Slots : HandledDict(i) =>
        \A key \in DisallowedKeys(i) :
            /\ key \in DOMAIN api_data[i] <=>
                  \/ key \in {"url", "browserHtml"}
                  \/ key = "jobId" /\ "JOB" \in DOMAIN attributes
            /\ key = "url" => api_data[i][key] = PyStr(request[i].url)
            /\ key = "browserHtml" => api_data[i][key] = PyTrue
            /\ (key = "jobId" /\ "JOB" \in DOMAIN attributes) =>
                  api_data[i][key] = attributes["JOB"]
            /\ Count(i, NotAllowedWarning(key)) = 1
            /\ \A n \in DOMAIN log[i] :
                  (log[i][n].level = "warning" /\ log[i][n].arg = PyStr(key)) =>
                      log[i][n] = NotAllowedWarning(key)
            /\ calls[i] = 1
C3_Witness ==
    \E i \in Slots :
        /\ HandledDict(i)
        /\ {"waka", "url"} \subseteq Keys(request[i].params)
        /\ calls[i] = 1
        /\ "waka" \notin DOMAIN api_data[i]

\* C4: the payload without jobId is the reference payload: url is the
\* request's url, browserHtml is True whatever the caller gave for them,
\* each allowed key of the caller's dict has the caller's value, and there
\* is no other key; the caller's dict is never changed.
C4_ReferencePayload ==
    \A i \in Slots : HandledDict(i) =>
        LET given == Keys(request[i].params) \cap AllowedKeys
        IN /\ DOMAIN api_data[i] \ {"jobId"} = {"url", "browserHtml"} \cup given
           /\ api_data[i]["url"] = PyStr(request[i].url)
           /\ api_data[i]["browserHtml"] = PyTrue
           /\ \A key \in given : api_data[i][key] = Lookup(request[i].params, key)
C4_ParamsUnmodified ==
    \A i \in Slots : Started(i) => request'[i] = request[i]
\* C4: in every state the payload is the reference payload, and no step
\* changes the dict of a request already handed in.
C4_PayloadIsReference == [] C4_ReferencePayload /\ [][C4_ParamsUnmodified]_vars
C4_Witness ==
    \E i \in Slots :
        /\ HandledDict(i)
        /\ calls[i] = 1
        /\ request[i].params = <<<<"browserHtml", PyFalse>>, <<"echoData", PyFalse>>>>
        /\ api_data[i]["echoData"] = PyFalse

\* The job id the JOB setting was set to.
ConfiguredJob == CHOOSE j \in JobIds : attributes["JOB"] = SettingsAttribute(j)

\* C5: the payload of every call has the key jobId exactly when JOB was set
\* at construction, and then its value is the configured job id.
C5_JobIdInPayload ==
    \A i \in Slots : calls[i] = 1 =>
        /\ "jobId" \in DOMAIN api_data[i] <=> "JOB" \in DOMAIN attributes
        /\ "JOB" \in DOMAIN attributes => api_data[i]["jobId"] = ConfiguredJob

\* UTF-8 read back: the code points a byte sequence stands for.
RECURSIVE Utf8Decode(_)
Utf8Decode(bytes) ==
    IF bytes = << >> THEN << >>
    ELSE LET b == Head(bytes)
             n == IF b < 128 THEN 1 ELSE IF b < 224 THEN 2 ELSE IF b < 240 THEN 3 ELSE 4
             lead == IF b < 128 THEN b ELSE IF b < 224 THEN b - 192
                     ELSE IF b < 240 THEN b - 224 ELSE b - 240
             cont(k, acc) == acc * 64 + (bytes[k] - 128)
             cp == IF n = 1 THEN lead
                   ELSE IF n = 2 THEN cont(2, lead)
                   ELSE IF n = 3 THEN cont(3, cont(2, lead))
                   ELSE cont(4, cont(3, cont(2, lead)))
         IN IF Len(bytes) < n THEN <<-1>>
            ELSE <<cp>> \o Utf8Decode(SubSeq(bytes, n + 1, Len(bytes)))

\* C6: whenever the client call returns, the handler returns a Response
\* with status 200, the UTF-8 bytes of the response's browserHtml as body,
\* the request's url and the request, the flags ["zyte-api"] and no headers.
C6_SuccessGivesResponse ==
    \A i \in Slots : client_result[i] = "returned" =>
        /\ outcome[i] = "Response"
        /\ response[i].status = 200
        /\ \A n \in DOMAIN response[i].body : response[i].body[n] \in 0 .. 255
        /\ Utf8Decode(response[i].body) = api_response[i]["browserHtml"].chars
        /\ response[i].url = request[i].url
        /\ response[i].request = i
        /\ response[i].flags = <<"zyte-api">>
        /\ response[i].headers = << >>

\* C7: the counter scrapy-zyte-api/request_count equals the number of
\* requests for which the handler returned a Response.
C7_CounterCountsResponses ==
    RequestCountValue = Cardinality({i \in Slots : outcome[i] = "Response"})

\* C8: session.close starts only after super().close() has finished, every
\* call uses the session made at construction, and every close() that has
\* ended, by returning or by failing, has closed the session.
C8_CloseReleasesSession ==
    /\ session_state # "open" => super_close \in {"succeeded", "failed"}
    /\ \A i \in Slots : calls[i] = 1 => call_session[i] = "session created in __init__"
    /\ close_pc \in {"done", "failed"} => session_state = "closed"

\* The message the precedence of C9 names for a RequestError.
ExpectedMessage(error) ==
    LET c == error.response_content
    IN IF /\ error.has_response_content
          /\ c.kind = "json"
          /\ c.data.jtype = "object"
          /\ c.data.has_detail
          /\ c.data.detail \notin {PyStr(""), PyNone}
       THEN c.data.detail
       ELSE IF error.has_message THEN error.message ELSE error.str

\* C9: for every RequestError the request is dropped with IgnoreRequest and
\* the logged message is the "detail" of JSON response content when there is
\* a non-empty one, otherwise error.message when the error has one,
\* otherwise str(error).
C9_MessagePrecedence ==
    \A i \in Slots : client_result[i] = "RequestError" =>
        /\ outcome[i] = "IgnoreRequest"
        /\ log[i][Len(log[i])] = ApiErrorLog(ExpectedMessage(er[i]))

Returned == {i \in Slots : client_result[i] = "returned"}
ToAdapter(i) ==
    /\ calls[i] = 1
    /\ call_session[i] = "session created in __init__"
    /\ parent_downloads[i] = 0
ToHttpHandler(i) ==
    /\ parent_downloads[i] = 1
    /\ outcome[i] = "delegated"
    /\ calls[i] = 0
    /\ client_result[i] = ""

\* C10 as stated: a request with a dict under "zyte_api", the empty dict
\* included, gets exactly one client call over the shared session and no
\* HTTP download; a request without "zyte_api" gets the HTTP download, no
\* client call and no counter change.
C10_RoutingByFlag ==
    /\ \A i \in Slots : Started(i) =>
          /\ (request[i].has_meta /\ request[i].is_dict) => ToAdapter(i)
          /\ ~request[i].has_meta => ToHttpHandler(i)
    /\ RequestCountValue = Cardinality(Returned)

\* C10 amended: a request with a non-empty dict under "zyte_api" gets
\* exactly one client call over the shared session and no HTTP download; a
\* request without "zyte_api", or with an empty dict under it, gets the HTTP
\* download, no client call and no counter change.
C10_RoutingByTruthyFlag ==
    /\ \A i \in Slots : Started(i) =>
          /\ (request[i].has_meta /\ request[i].is_dict /\ request[i].params # EmptyDict)
                => ToAdapter(i)
          /\ (~request[i].has_meta
                \/ (request[i].has_meta /\ request[i].is_dict /\ request[i].params = EmptyDict))
                => ToHttpHandler(i)
    /\ RequestCountValue = Cardinality(Returned)
C10_Witness ==
    \E i, j \in Slots :
        /\ request[i].has_meta /\ request[i].is_dict /\ request[i].params = EmptyDict
        /\ Finished(i) /\ outcome[i] = "delegated"
        /\ request[j].has_meta /\ request[j].is_dict /\ request[j].params # EmptyDict
        /\ outcome[j] = "Response"

====
